---------------------------- MODULE Spec2Model ----------------------------
(***************************************************************************)
(* Kalshi odds proxy (src/app.py): the signed upstream GET, the cursor     *)
(* paginator, the keyword filter and the service-key check, as a state     *)
(* machine that handles one inbound request after another.                 *)
(*                                                                         *)
(* Python str values are sequences of one-character strings; None is the   *)
(* value None below, which is no such sequence.  A market record is        *)
(* referred to by its position in the upstream listing (Market(i) is the   *)
(* record), so a list of markets is a sequence of positions.               *)
(***************************************************************************)
EXTENDS Integers, Sequences, FiniteSets, TLC

(* ------------------------------ bounds -------------------------------- *)

\* The wall clock reads 0 .. MaxClock milliseconds.
MaxClock == 1
\* Orderbook tickers have 1 .. MaxTickerLen characters.
MaxTickerLen == 2

(* --------------------------- Python values ---------------------------- *)

None == <<"None">>

\* Python truthiness of an Optional[str]: None and "" are falsy.
Truthy(v) == v # None /\ v # <<>>

Min(a, b) == IF a < b THEN a ELSE b
Max(a, b) == IF a > b THEN a ELSE b

\* str.lower() on the characters the model uses.
LowerChar(c) ==
  CASE c = "A" -> "a"
    [] c = "B" -> "b"
    [] OTHER -> c

Lower(s) == [i \in 1..Len(s) |-> LowerChar(s[i])]

\* str.upper() on the method names the model uses.
Upper(m) == IF m = "get" THEN "GET" ELSE m

\* Python's `needle in haystack` on str: the naive scan for an occurrence.
RECURSIVE FindFrom(_, _, _)
FindFrom(needle, hay, i) ==
  IF i + Len(needle) - 1 > Len(hay) THEN FALSE
  ELSE IF SubSeq(hay, i, i + Len(needle) - 1) = needle THEN TRUE
  ELSE FindFrom(needle, hay, i + 1)

StrIn(needle, hay) == FindFrom(needle, hay, 1)

\* dict.get(key, default)
Get(d, key, default) == IF key \in DOMAIN d THEN d[key] ELSE default

\* d[key] = value on a dict
SetItem(d, key, value) ==
  [k \in DOMAIN d \cup {key} |-> IF k = key THEN value ELSE d[k]]

EmptyDict == [k \in {} |-> None]

(* ---------------------------- configuration --------------------------- *)

BASE_PATH == <<"/trade-api/v2">>
API_PREFIX == <<"/trade-api/v2">>
ACCESS_KEY == <<"a">>
SERVICE_API_KEY == <<"k">>

(* ------------------------- inputs of the model ------------------------ *)

\* x-api-key header values: absent, the right key, a wrong key.
ApiKeys == {None, <<"k">>, <<"w">>}
Keywords == {None, <<>>, <<"B">>, <<"a", " ", "b">>}
Statuses == {None, <<"o">>}
SeriesTickers == {<<"S">>}
Limits == {1, 50, 100, 120, 250}
TickerChars == {"A", " ", "?"}
Tickers == UNION {[1..n -> TickerChars] : n \in 1..MaxTickerLen}

\* What the upstream may answer to one GET.
BatchSizes == {0, 40, 80, 100}
ErrorStatuses == {204, 500}
ErrorTexts == {<<>>, <<"q">>}
TransportFailures == {"Timeout", "ConnectionError"}

\* The record at position i of the upstream listing.  title and ticker are
\* optional keys.
Market(i) ==
  CASE i % 7 = 0 -> [id |-> i, title |-> <<"A">>, ticker |-> <<"b">>]
    [] i % 7 = 1 -> [id |-> i, ticker |-> <<"B", "a">>]
    [] i % 7 = 2 -> [id |-> i, title |-> <<"a", "a">>]
    [] i % 7 = 3 -> [id |-> i]
    [] i % 7 = 4 -> [id |-> i, title |-> <<"b">>, ticker |-> <<"A">>]
    [] i % 7 = 5 -> [id |-> i, title |-> <<"a", "B">>, ticker |-> <<>>]
    [] OTHER -> [id |-> i, title |-> <<"A", " ">>, ticker |-> <<"B">>]

(* -------------------------------- state ------------------------------- *)

VARIABLES
  pc,          \* where the request being handled stands
  req,         \* the inbound request
  clock,       \* the wall clock, in milliseconds
  base_params, \* the handler's base_params
  limit,       \* _paged_markets' limit
  out,         \* _paged_markets' out
  params,      \* _paged_markets' params
  cursor,      \* _paged_markets' cursor
  markets,     \* the handler's markets, as _paged_markets returned it
  result,      \* the outcome of the last _authed_get
  response,    \* what the inbound caller gets
  lastCall,    \* the last GET sent upstream
  ncalls,      \* GETs sent upstream for this request
  invocations, \* _authed_get invocations for this request
  net,         \* what the network did with the last GET
  sizes,       \* upstream's log: the batch size of each page it served
  prevPage,    \* upstream's log: the page served before the last one
  lastPage     \* upstream's log: the last page served

vars == <<pc, req, clock, base_params, limit, out, params, cursor, markets,
          result, response, lastCall, ncalls, invocations, net, sizes,
          prevPage, lastPage>>

NoCall == [sent |-> FALSE]
NoResult == [kind |-> "none"]
NoResponse == [status |-> 0]
NoPage == [served |-> FALSE]
NoRequest == [endpoint |-> "none"]


(* ------------------------------ upstream ------------------------------ *)

RECURSIVE Sum(_)
Sum(s) == IF s = <<>> THEN 0 ELSE Head(s) + Sum(Tail(s))

\* The n records the upstream serves next: the listing goes on where the
\* pages served so far ended.
Batch(n) == [j \in 1..n |-> Sum(sizes) + j]

\* The JSON body of a 200 answer to GET /markets.  A null cursor is left
\* out, and so is an empty markets list when nothing else is in the body.
PageJson(batch, c) ==
  IF c = None
  THEN IF batch = <<>> THEN EmptyDict ELSE [markets |-> batch]
  ELSE [markets |-> batch, cursor |-> c]

Failures ==
  [kind : {"transport"}, error : TransportFailures]
    \cup [kind : {"response"}, status_code : ErrorStatuses, text : ErrorTexts]

\* The cursor values a page may carry: null, the empty string, or the opaque
\* token of the place where the page ends (a different one for each place).
Cursors(n) == {None, <<>>, <<"c", Sum(sizes) + n>>}

MarketsReplies ==
  Failures \cup
    UNION {{[kind |-> "response", status_code |-> 200,
             json |-> PageJson(Batch(n), c)] : c \in Cursors(n)} :
           n \in BatchSizes}

OrderbookReplies ==
  Failures \cup
    {[kind |-> "response", status_code |-> 200, json |-> [orderbook |-> <<"y">>]]}

(* ------------------------------- signing ------------------------------ *)

\* _sign: the signature is identified with the canonical message it signs,
\* timestamp, upper-cased method, API prefix and path, in that order.
_sign(ts_ms, method, short_path) ==
  [ts |-> ts_ms, method |-> Upper(method), path |-> API_PREFIX \o short_path]

\* The path requests puts on the wire for a URL path given as text: the text
\* ends at the first "?", where the query starts, and a space goes out
\* percent-encoded.
RECURSIVE RequotePath(_)
RequotePath(p) ==
  IF p = <<>> THEN <<>>
  ELSE IF Head(p) = "?" THEN <<>>
  ELSE IF Head(p) = " " THEN <<"%20">> \o RequotePath(Tail(p))
  ELSE <<Head(p)>> \o RequotePath(Tail(p))

\* The GET _authed_get sends: requests.get(BASE + short_path, params, headers).
Request(short_path, p, ts) ==
  [sent |-> TRUE,
   method |-> "GET",
   path |-> BASE_PATH \o RequotePath(short_path),
   params |-> p,
   access_key |-> ACCESS_KEY,
   timestamp |-> ts,
   signature |-> _sign(ts, "GET", short_path)]


\* Outcome with the transport failure caught and raised as an HTTPException.
OutcomeConflated(reply) ==
  IF reply.kind = "transport"
  THEN [kind |-> "HTTPException", status_code |-> 500, detail |-> <<>>]
  ELSE IF reply.status_code # 200
  THEN [kind |-> "HTTPException", status_code |-> reply.status_code,
        detail |-> reply.text]
  ELSE [kind |-> "ok", json |-> reply.json]

\* How _authed_get ends, given what the network did: requests raises on a
\* transport failure, a status other than 200 raises HTTPException, and 200
\* returns r.json().
Outcome(reply) ==
  IF reply.kind = "transport"
  THEN [kind |-> "RequestException", error |-> reply.error]
  ELSE IF reply.status_code # 200
  THEN [kind |-> "HTTPException", status_code |-> reply.status_code,
        detail |-> reply.text]
  ELSE [kind |-> "ok", json |-> reply.json]

(* ------------------------------ paginator ----------------------------- *)

\* params["limit"] = min(100, max(1, limit))
PageSize(l) == Min(100, Max(1, l))


\* LoopGuard with <= for <.
LoopGuardInclusive(o, l) == Len(o) <= l

\* while len(out) < limit
LoopGuard(o, l) == Len(o) < l


\* AttachCursor that sets the cursor once and never updates it.
AttachCursorOnce(p, c) ==
  IF Truthy(c) /\ "cursor" \notin DOMAIN p THEN SetItem(p, "cursor", c) ELSE p

\* if cursor: params["cursor"] = cursor
AttachCursor(p, c) == IF Truthy(c) THEN SetItem(p, "cursor", c) ELSE p


\* LoopBreak without the test of the batch.
LoopBreakCursorOnly(c, batch) == ~Truthy(c)

\* if not cursor or not batch: break
LoopBreak(c, batch) == ~Truthy(c) \/ batch = <<>>


\* Truncate that returns out whole.
TruncateNone(o, l) == o

\* Truncate that keeps the last l items, out[-limit:].
TruncateTail(o, l) == SubSeq(o, Max(1, Len(o) - l + 1), Len(o))

\* return out[:limit]
Truncate(o, l) == SubSeq(o, 1, Min(l, Len(o)))

(* ----------------------------- the handlers --------------------------- *)


\* KeyOk that only asks for the header to be there.
KeyOkPresent(x_api_key) == x_api_key # None

\* require_service_key lets the request through.
KeyOk(x_api_key) == x_api_key = SERVICE_API_KEY


\* Matches without .lower() on the record's text.
MatchesCaseSensitive(m, kw) ==
  StrIn(kw, Get(m, "title", <<>>) \o <<" ">> \o Get(m, "ticker", <<>>))

\* The keyword test of odds_search on one record.
Matches(m, kw) ==
  StrIn(kw, Lower(Get(m, "title", <<>>) \o <<" ">> \o Get(m, "ticker", <<>>)))

\* if keyword: markets = [m for m in markets if kw in ...]
Filter(ms, keyword) ==
  IF Truthy(keyword)
  THEN SelectSeq(ms, LAMBDA i : Matches(Market(i), Lower(keyword)))
  ELSE ms


\* Raised that swallows the failure and answers with what was accumulated.
RaisedPartial(res, o) ==
  [status |-> 200, kind |-> "listing", count |-> Len(o), markets |-> o]

\* The response to a request whose handler raised: an HTTPException gives its
\* status and detail, any other exception a plain 500.  Nothing the handler
\* had in hand (o: the paginator's out) goes with it.
Raised(res, o) ==
  IF res.kind = "HTTPException"
  THEN [status |-> res.status_code, kind |-> "HTTPException", detail |-> res.detail]
  ELSE [status |-> 500, kind |-> "ServerError"]

Listing(ms) == [status |-> 200, kind |-> "listing", count |-> Len(ms), markets |-> ms]

Requests ==
  [endpoint : {"search"}, x_api_key : ApiKeys, keyword : Keywords,
   status : Statuses, limit : Limits]
    \cup [endpoint : {"series"}, x_api_key : ApiKeys,
          series_ticker : SeriesTickers, status : Statuses, limit : Limits]
    \cup [endpoint : {"orderbook"}, x_api_key : ApiKeys, ticker : Tickers]

Init ==
  /\ pc = "idle"
  /\ req = NoRequest
  /\ clock = 0
  /\ base_params = EmptyDict
  /\ limit = 0
  /\ out = <<>>
  /\ params = EmptyDict
  /\ cursor = None
  /\ markets = <<>>
  /\ result = NoResult
  /\ response = NoResponse
  /\ lastCall = NoCall
  /\ ncalls = 0
  /\ invocations = 0
  /\ net = NoResult
  /\ sizes = <<>>
  /\ prevPage = NoPage
  /\ lastPage = NoPage

\* An inbound request arrives.
Receive ==
  /\ pc = "idle"
  /\ \E r \in Requests : req' = r
  /\ pc' = "auth"
  /\ UNCHANGED <<clock, base_params, limit, out, params, cursor, markets,
                 result, response, lastCall, ncalls, invocations, net, sizes,
                 prevPage, lastPage>>

\* The response is sent: nothing of the request is kept, the process waits
\* for the next one.
Respond ==
  /\ pc = "done"
  /\ pc' = "idle"
  /\ req' = NoRequest
  /\ base_params' = EmptyDict
  /\ limit' = 0
  /\ out' = <<>>
  /\ params' = EmptyDict
  /\ cursor' = None
  /\ markets' = <<>>
  /\ result' = NoResult
  /\ response' = NoResponse
  /\ lastCall' = NoCall
  /\ ncalls' = 0
  /\ invocations' = 0
  /\ net' = NoResult
  /\ sizes' = <<>>
  /\ prevPage' = NoPage
  /\ lastPage' = NoPage
  /\ UNCHANGED clock

\* Depends(require_service_key), run before the handler.
require_service_key ==
  /\ pc = "auth"
  /\ IF KeyOk(req.x_api_key)
     THEN /\ pc' = "handler"
          /\ UNCHANGED response
     ELSE /\ pc' = "done"
          /\ response' = [status |-> 401, kind |-> "HTTPException",
                          detail |-> <<"Unauthorized">>]
  /\ UNCHANGED <<req, clock, base_params, limit, out, params, cursor, markets,
                 result, lastCall, ncalls, invocations, net, sizes, prevPage,
                 lastPage>>

\* _paged_markets up to its loop: out, params and cursor are set up.
EnterPagedMarkets(bp, l) ==
  /\ base_params' = bp
  /\ limit' = l
  /\ out' = <<>>
  /\ params' = SetItem(bp, "limit", PageSize(l))
  /\ cursor' = None
  /\ pc' = "paging"
  /\ UNCHANGED <<req, clock, markets, result, response, lastCall, ncalls,
                 invocations, net, sizes, prevPage, lastPage>>

\* odds_search up to the call of _paged_markets.
odds_search ==
  /\ pc = "handler"
  /\ req.endpoint = "search"
  /\ EnterPagedMarkets(
       IF Truthy(req.status) THEN SetItem(EmptyDict, "status", req.status)
       ELSE EmptyDict,
       req.limit)

\* odds_series up to the call of _paged_markets.
odds_series ==
  /\ pc = "handler"
  /\ req.endpoint = "series"
  /\ EnterPagedMarkets(
       IF Truthy(req.status)
       THEN SetItem([series_ticker |-> req.series_ticker], "status", req.status)
       ELSE [series_ticker |-> req.series_ticker],
       req.limit)

\* One turn of _paged_markets' loop: one _authed_get of /markets.
PageFetch ==
  /\ pc = "paging"
  /\ LoopGuard(out, limit)
  /\ \E d \in 0..1, reply \in MarketsReplies :
       /\ clock + d <= MaxClock
       /\ LET p == AttachCursor(params, cursor)
              res == Outcome(reply)
              data == res.json
              batch == Get(data, "markets", <<>>)
              c == Get(data, "cursor", None)
          IN /\ clock' = clock + d
             /\ params' = p
             /\ lastCall' = Request(<<"/markets">>, p, clock + d)
             /\ ncalls' = ncalls + 1
             /\ invocations' = invocations + 1
             /\ net' = reply
             /\ result' = res
             /\ IF res.kind = "ok"
                THEN /\ out' = out \o batch
                     /\ cursor' = c
                     /\ pc' = IF LoopBreak(c, batch) THEN "return" ELSE "paging"
                     /\ sizes' = Append(sizes, Len(batch))
                     /\ prevPage' = lastPage
                     /\ lastPage' = [served |-> TRUE, n |-> Len(batch), cursor |-> c]
                     /\ UNCHANGED response
                ELSE /\ pc' = "done"
                     /\ response' = Raised(res, out)
                     /\ UNCHANGED <<out, cursor, sizes, prevPage, lastPage>>
  /\ UNCHANGED <<req, base_params, limit, markets>>

\* _paged_markets returns out[:limit], and the handler builds its response:
\* odds_search filters by keyword, odds_series does not.
PagedReturn ==
  /\ \/ pc = "return"
     \/ pc = "paging" /\ ~LoopGuard(out, limit)
  /\ markets' = Truncate(out, limit)
  /\ response' = Listing(IF req.endpoint = "search"
                         THEN Filter(markets', req.keyword)
                         ELSE markets')
  /\ pc' = "done"
  /\ UNCHANGED <<req, clock, base_params, limit, out, params, cursor, result,
                 lastCall, ncalls, invocations, net, sizes, prevPage, lastPage>>

\* odds_orderbook: one _authed_get, passed through.
odds_orderbook ==
  /\ pc = "handler"
  /\ req.endpoint = "orderbook"
  /\ \E d \in 0..1, reply \in OrderbookReplies :
       /\ clock + d <= MaxClock
       /\ LET res == Outcome(reply)
          IN /\ clock' = clock + d
             /\ lastCall' = Request(<<"/markets/">> \o req.ticker \o <<"/orderbook">>,
                                    None, clock + d)
             /\ ncalls' = ncalls + 1
             /\ invocations' = invocations + 1
             /\ net' = reply
             /\ result' = res
             /\ response' = IF res.kind = "ok"
                            THEN [status |-> 200, kind |-> "orderbook", body |-> res.json]
                            ELSE Raised(res, <<>>)
  /\ pc' = "done"
  /\ UNCHANGED <<req, base_params, limit, out, params, cursor, markets, sizes,
                 prevPage, lastPage>>

Next ==
  \/ Receive
  \/ require_service_key
  \/ odds_search
  \/ odds_series
  \/ PageFetch
  \/ PagedReturn
  \/ odds_orderbook
  \/ Respond

Spec == Init /\ [][Next]_vars


(* ------------------------ vocabulary of the claims -------------------- *)

\* The request asked for a listing and _paged_markets has returned.
Returned == pc = "done" /\ response.kind = "listing" /\ result.kind = "ok"

Paged == req.endpoint \in {"search", "series"}

\* The concatenation, in fetch order, of the batches of the pages fetched:
\* page k holds the records that follow those of pages 1 .. k-1.
Fetched == [i \in 1..Sum(sizes) |-> i]

Front(q) == SubSeq(q, 1, Len(q) - 1)

CeilDiv(a, b) == (a + b - 1) \div b

\* The last _authed_get failed.
Failed == result.kind \in {"HTTPException", "RequestException"}

\* Every page served so far held at least one record.
NonEmptyPages == \A k \in 1..Len(sizes) : sizes[k] > 0

\* The totals T the pages served so far leave open: a last page without a
\* cursor ends the listing, a cursor promises at least one more record.
MaxMore == 2
Totals ==
  IF Truthy(lastPage.cursor)
  THEN (Sum(sizes) + 1)..(Sum(sizes) + MaxMore)
  ELSE {Sum(sizes)}

\* The upstream serves pages of sizes 40, 40, 40, a cursor on each but the
\* last, and the pagination fetched an initial part of them.
Script40 ==
  /\ Len(sizes) \in 1..3
  /\ \A k \in 1..Len(sizes) : sizes[k] = 40
  /\ Truthy(lastPage.cursor) <=> Len(sizes) < 3

\* The keyword test as the specification words it: the lower-cased keyword
\* occurs at some place of the lower-cased title, a space, and the ticker,
\* a missing field being empty.
TextOf(i) ==
  (IF "title" \in DOMAIN Market(i) THEN Market(i).title ELSE <<>>)
    \o <<" ">>
    \o (IF "ticker" \in DOMAIN Market(i) THEN Market(i).ticker ELSE <<>>)

Occurs(kw, i) ==
  \E k \in 0..(Len(TextOf(i)) - Len(kw)) :
    \A j \in 1..Len(kw) : LowerChar(kw[j]) = LowerChar(TextOf(i)[k + j])

Range(q) == {q[k] : k \in 1..Len(q)}

Increasing(q) == \A k \in 1..(Len(q) - 1) : q[k] < q[k + 1]

\* base_params as the handler of the request builds it.
BaseOf(r) ==
  [k \in (IF r.endpoint = "series" THEN {"series_ticker"} ELSE {})
           \cup (IF Truthy(r.status) THEN {"status"} ELSE {})
     |-> IF k = "status" THEN r.status ELSE r.series_ticker]

(* -------------------------------- claims ------------------------------ *)

\* C1: when _paged_markets returns, its result is exactly the first
\* min(limit, n) items of the concatenation, in fetch order, of the batches
\* it fetched: never more than limit items, nothing reordered, dropped from
\* the middle or duplicated.
C1_ResultIsPrefix ==
  Returned =>
    /\ req.limit >= 1
    /\ markets = SubSeq(Fetched, 1, Min(req.limit, Len(Fetched)))
    /\ Len(markets) <= req.limit
    /\ Increasing(markets)

\* The last page overshoots the limit and the result is cut to it.
C1_Witness ==
  /\ Returned
  /\ Len(sizes) = 3
  /\ Len(out) > req.limit
  /\ Len(markets) = req.limit

\* C2: the pagination makes at most limit upstream calls, whatever the
\* upstream answers: a call is only made while fewer than limit items are
\* accumulated and after a page, if any, that held a non-empty batch and a
\* non-empty cursor; a page with an empty batch or no cursor is the last.
C2_BoundedCalls ==
  Paged /\ ncalls > 0 =>
    /\ ncalls <= req.limit
    /\ ncalls \in {Len(sizes), Len(sizes) + 1}
    /\ \A k \in 1..(Len(sizes) - 1) : sizes[k] > 0
    /\ ncalls = Len(sizes) => Sum(Front(sizes)) < req.limit
    /\ ncalls = Len(sizes) /\ prevPage.served =>
         prevPage.n > 0 /\ Truthy(prevPage.cursor)
    /\ ncalls = Len(sizes) + 1 =>
         /\ Sum(sizes) < req.limit
         /\ lastPage.served => lastPage.n > 0 /\ Truthy(lastPage.cursor)
    /\ lastPage.served /\ (lastPage.n = 0 \/ ~Truthy(lastPage.cursor)) =>
         pc \in {"return", "done"} /\ ncalls = Len(sizes)
    /\ pc = "paging" /\ Len(out) >= req.limit => ~ENABLED PageFetch

\* The upstream answers a second page with a cursor and an empty batch, and
\* the pagination has ended there.
C2_Witness ==
  /\ Returned
  /\ Len(sizes) = 2
  /\ lastPage.n = 0
  /\ Truthy(lastPage.cursor)
  /\ ncalls = 2

\* C3 as stated: against consecutive non-empty pages serving T items, a
\* request with limit L yields count = min(L, T).
C3_CountIsMin ==
  Returned /\ NonEmptyPages =>
    \A T \in Totals : response.count = Min(req.limit, T)

\* C3, amended: against consecutive non-empty pages serving T items,
\* _paged_markets returns min(L, T) items, which is the count of the response
\* when no keyword filter applies (odds_series, odds_search without a
\* keyword); no page is requested once the accumulated count is >= L; with
\* L = 250 and T = 180 over two pages the count is 180, with L = 50 and a
\* first page of at least 50 items one call is made and 50 items returned.
C3_CountIsMinUnfiltered ==
  Returned /\ NonEmptyPages =>
    /\ \A T \in Totals : Len(markets) = Min(req.limit, T)
    /\ req.endpoint = "series" \/ ~Truthy(req.keyword) =>
         \A T \in Totals : response.count = Min(req.limit, T)
    /\ Sum(Front(sizes)) < req.limit
    /\ ncalls = Len(sizes)
    /\ req.limit = 250 /\ Len(sizes) = 2 /\ Sum(sizes) = 180
         /\ ~Truthy(lastPage.cursor) => Len(markets) = 180
    /\ req.limit = 50 /\ sizes[1] >= 50 => ncalls = 1 /\ Len(markets) = 50

\* limit = 250 against 180 items over two pages: the count is 180.
C3_Witness ==
  /\ Returned
  /\ req.endpoint = "series"
  /\ req.limit = 250
  /\ sizes = <<100, 80>>
  /\ lastPage.cursor = None
  /\ response.count = 180

\* C4 as stated: against pages of sizes 40, 40, 40 the result has
\* min(L, 120) items in page order and at most ceil(min(L, 120) / 100)
\* upstream calls are made.
C4_CallsBoundedByCap ==
  Returned /\ Script40 =>
    /\ markets = SubSeq(Fetched, 1, Min(req.limit, 120))
    /\ ncalls <= CeilDiv(Min(req.limit, 120), 100)

\* C4, amended: against pages of sizes 40, 40, 40 the result has
\* min(L, 120) items in page order and exactly ceil(min(L, 120) / 40)
\* upstream calls are made, one for each page of 40 that is needed.
C4_CallsPerPageServed ==
  Returned /\ Script40 =>
    /\ Len(markets) = Min(req.limit, 120)
    /\ markets = SubSeq(Fetched, 1, Min(req.limit, 120))
    /\ ncalls = CeilDiv(Min(req.limit, 120), 40)

\* All three pages of 40 are fetched for a limit above 80.
C4_Witness ==
  /\ Returned
  /\ Script40
  /\ req.limit = 100
  /\ ncalls = 3
  /\ Len(markets) = 100

\* C5: a page fetch that fails ends the pagination there: the failure is the
\* response, the failed call is the last one (no retry, no later page), and
\* no item of the earlier pages is in the response.
C5_FailureAborts ==
  Paged /\ Failed =>
    /\ pc = "done"
    /\ ~ENABLED PageFetch
    /\ ncalls = Len(sizes) + 1
    /\ response.kind \in {"HTTPException", "ServerError"}
    /\ response.status # 200
    /\ "markets" \notin DOMAIN response
    /\ markets = <<>>

\* The second page fails after a first page of items.
C5_Witness ==
  /\ Paged
  /\ Failed
  /\ Len(out) > 0
  /\ ncalls = 2
  /\ pc = "done"

\* C6: _authed_get sends one GET per invocation; 200 gives the parsed body,
\* another status an HTTPException with that status and the body text, a
\* transport failure an exception of another kind.
C6_OutcomeByKind ==
  /\ ncalls = invocations
  /\ lastCall.sent =>
       /\ net.kind = "transport" =>
            result.kind = "RequestException" /\ result.error = net.error
       /\ net.kind = "response" /\ net.status_code = 200 =>
            result.kind = "ok" /\ result.json = net.json
       /\ net.kind = "response" /\ net.status_code # 200 =>
            /\ result.kind = "HTTPException"
            /\ result.status_code = net.status_code
            /\ result.detail = net.text
       /\ result.kind = "HTTPException" => net.kind = "response"
       /\ result.kind = "RequestException" => net.kind = "transport"

\* The upstream answered 500 with a body, and a timeout happened elsewhere.
C6_Witness ==
  /\ lastCall.sent
  /\ net.kind = "response"
  /\ net.status_code = 500
  /\ net.text = <<"q">>
  /\ result.kind = "HTTPException"
  /\ result.detail = <<"q">>

\* C7: a request to a data endpoint whose x-api-key is missing or differs
\* from SERVICE_API_KEY ends in 401 with no upstream call; upstream calls
\* are made only for requests whose key matched.
C7_NoCallWithoutKey ==
  /\ ncalls > 0 => req.x_api_key = SERVICE_API_KEY
  /\ req.endpoint # "none" /\ req.x_api_key # SERVICE_API_KEY =>
       /\ ncalls = 0
       /\ pc \in {"auth", "done"}
       /\ pc = "done" => response.status = 401 /\ response.kind = "HTTPException"

\* An orderbook request with a wrong key has been answered.
C7_Witness ==
  /\ pc = "done"
  /\ req.endpoint = "orderbook"
  /\ req.x_api_key = <<"w">>
  /\ response.status = 401
  /\ ncalls = 0

\* C8: for every upstream call the signature is computed over the timestamp
\* of the call's timestamp header, the method used and the API prefix plus
\* the path requested, for any ticker.
C8_SignatureMatchesCall ==
  lastCall.sent =>
    /\ lastCall.signature.ts = lastCall.timestamp
    /\ lastCall.signature.method = lastCall.method
    /\ lastCall.signature.path = lastCall.path

\* C9: the keyword filter returns its input unchanged for an absent or empty
\* keyword, and otherwise, in the same order, exactly the items whose
\* lower-cased title + " " + ticker contains the lower-cased keyword, a
\* missing field counting as empty.
C9_FilterKeepsMatches ==
  Returned /\ req.endpoint = "search" =>
    /\ response.count = Len(response.markets)
    /\ ~Truthy(req.keyword) => response.markets = markets
    /\ Truthy(req.keyword) =>
         /\ Increasing(response.markets)
         /\ Range(response.markets) = {i \in Range(markets) : Occurs(req.keyword, i)}

\* An item with no title whose ticker alone holds the keyword is kept, and
\* others are dropped.
C9_Witness ==
  /\ Returned
  /\ req.endpoint = "search"
  /\ req.keyword = <<"B">>
  /\ \E i \in Range(response.markets) : "title" \notin DOMAIN Market(i)
  /\ 0 < response.count
  /\ response.count < Len(markets)

\* C10: the first call of a pagination has no cursor parameter, every later
\* call has the cursor the page before it returned, every call has the page
\* size min(100, max(1, limit)) and the base parameters, and base_params is
\* left as the handler built it.
C10_CursorForwarded ==
  Paged /\ lastCall.sent =>
    /\ ncalls = 1 => "cursor" \notin DOMAIN lastCall.params
    /\ ncalls > 1 =>
         /\ "cursor" \in DOMAIN lastCall.params
         /\ lastCall.params["cursor"] =
              (IF result.kind = "ok" THEN prevPage.cursor ELSE lastPage.cursor)
    /\ lastCall.params["limit"] = Min(100, Max(1, req.limit))
    /\ DOMAIN lastCall.params \ {"limit", "cursor"} = DOMAIN BaseOf(req)
    /\ \A k \in DOMAIN BaseOf(req) : lastCall.params[k] = BaseOf(req)[k]
    /\ base_params = BaseOf(req)

\* A third call carries the cursor of the second page.
C10_Witness ==
  /\ Paged
  /\ result.kind = "ok"
  /\ ncalls = 3
  /\ req.limit = 250
  /\ "status" \in DOMAIN lastCall.params
  /\ lastCall.params["cursor"] = prevPage.cursor
  /\ lastCall.params["limit"] = 100

=============================================================================
